---- MODULE Spec2Model ----
(***************************************************************************)
(* QIE-NEXUS backend: the confidence predictor (AIInferenceService,        *)
(* services/ai_inference.py) and the oracle price cache (OracleService,    *)
(* services/oracle.py), as state machines.                                 *)
(*                                                                         *)
(* Neither class takes a lock.  Callers are the request handlers and the   *)
(* scheduler jobs of app.py, so every read or write of a field of the      *)
(* shared service object is one step of the calling thread, and steps of   *)
(* different threads interleave.  The sequential specifications run the    *)
(* same steps with a single caller.                                        *)
(*                                                                         *)
(* Numbers: confidences are Python ints.  A float is modelled by an        *)
(* integer, float('inf') by the value Inf; the raw output of the ONNX      *)
(* session is given in thousandths (556 is 0.556).                         *)
(***************************************************************************)
EXTENDS Integers, Sequences, FiniteSets, TLC

\* ------------------------------------------------------------------ bounds
\* Number of concurrent callers of the predictor.
NThreads == 2
\* Market ids are 1..MaxMarket.
MaxMarket == 2
\* InferenceSession objects that update_model may create after start-up.
MaxSessions == 2
\* Market ids of the concurrent callers are 1..MaxConcMarket.
MaxConcMarket == 1
\* Model paths are 0..MaxPath; 0 is the path read from AI_MODEL_PATH.
MaxPath == 1

\* Number of concurrent callers of the oracle service.
NOracleThreads == 2
\* Price dictionaries that fetch_all_prices may create.
MaxSnap == 2
\* The clock runs from 0 to MaxTime, in units of 30 seconds.
MaxTime == 4

Threads == 1..NThreads
OThreads == 1..NOracleThreads
Markets == 1..MaxMarket
Paths == 0..MaxPath

\* ----------------------------------------------------------------- values
\* float('inf') as a feature value.
Inf == 1000 * 1000

\* The features argument of predict: None, or a list of floats.
NoFeatures == [present |-> FALSE, vec |-> << >>]
Vec(v) == [present |-> TRUE, vec |-> v]
FeatureInputs ==
    {NoFeatures, Vec(<< >>), Vec(<<0, 0>>), Vec(<<7, 20>>), Vec(<<Inf, 1>>)}

\* Python truth value of `features`: None and [] are false.
Truthy(f) == f.present /\ Len(f.vec) > 0

RECURSIVE SumSeq(_)
SumSeq(s) == IF s = << >> THEN 0 ELSE Head(s) + SumSeq(Tail(s))

\* sum(features) is inf as soon as one entry is inf (no entry is -inf here).
IsFinite(v) == \A i \in 1..Len(v) : v[i] # Inf

\* int(x / d) for d > 0: Python's int() truncates towards zero.
TruncDiv(x, d) == IF x >= 0 THEN x \div d ELSE 0 - ((0 - x) \div d)

Max2(a, b) == IF a >= b THEN a ELSE b
Min2(a, b) == IF a <= b THEN a ELSE b

\* Raw outputs result[0][0] of session.run, in thousandths.
RawOutputs == {0 - 1500, 556, 1000, 2500}

\* ---------------------------------------------------------------- state
VARIABLES
    session,           \* self.session: 0 is None, otherwise a session object
    model_loaded,      \* self.model_loaded
    model_path,        \* self.model_path
    prediction_cache,  \* self.prediction_cache: market id -> confidence
    np_random,         \* numpy's global generator: the seed set, draws taken
    nextSession,       \* the next InferenceSession object to be created
    th,                \* per caller: position and locals of its call
    cacheEpoch,        \* history: self.session when the entry's call began
    lastRet,           \* history: market and value of the last predict return
    cache,             \* OracleService.cache: {} or the published prices
    last_update,       \* OracleService.last_update: {} or a datetime
    now,               \* datetime.now()
    nextSnap,          \* the next prices dictionary to be created
    ot,                \* per caller of the oracle service: position, locals
    built              \* the last prepare_features call: arguments, result

aiVars == <<session, model_loaded, model_path, prediction_cache, np_random,
            nextSession, th, cacheEpoch, lastRet>>

oracleVars == <<cache, last_update, now, nextSnap, ot>>

vars == <<aiVars, oracleVars, built>>

EmptyCache == [x \in {} |-> 0]

\* No value: a confidence is never negative.
NoVal == 0 - 1

\* No predict call has returned since the last step of update_model.
NoRet == [market |-> 0, ret |-> NoVal]

\* The value the previous predict call returned, if it was for market m.
PrevRet(m) == IF lastRet.market = m THEN lastRet.ret ELSE NoVal

\* The dictionary get_model_info builds, before its values are read.
NoInfo == [loaded |-> FALSE, path |-> 0, type |-> "", cache_size |-> 0]

Idle ==
    [pc |-> "idle", op |-> "none", market |-> 0, feats |-> NoFeatures,
     path |-> 0, epoch |-> 0, sessSeen |-> 0, inputFrom |-> 0, ranOn |-> 0,
     conf |-> NoVal, via |-> "none", ret |-> NoVal, ok |-> FALSE,
     raised |-> FALSE, errored |-> FALSE, newSess |-> 0, prev |-> NoVal,
     missed |-> FALSE, raw |-> 0, info |-> NoInfo, flagAtCall |-> FALSE]

Put(c, m, v) == [x \in (DOMAIN c) \cup {m} |-> IF x = m THEN v ELSE c[x]]

\* __init__: the model file at model_path either loads or it does not.
AIInit ==
    /\ \E loaded \in BOOLEAN :
          /\ model_loaded = loaded
          /\ session = (IF loaded THEN 1 ELSE 0)
          /\ nextSession = (IF loaded THEN 2 ELSE 1)
    /\ model_path = 0
    /\ prediction_cache = EmptyCache
    /\ np_random = [seed |-> 0, pos |-> 0]
    /\ th = [t \in Threads |-> Idle]
    /\ cacheEpoch = EmptyCache
    /\ lastRet = NoRet


Set(t, r) == th' = [th EXCEPT ![t] = r]

\* ------------------------------------------------------------- predict
\* A caller enters predict(market_id, features).
PredictCall(t, m, f) ==
    /\ th[t].pc = "idle"
    /\ Set(t, [Idle EXCEPT !.pc = "p_check", !.op = "predict", !.market = m,
                           !.feats = f, !.prev = PrevRet(m)])
    /\ UNCHANGED <<session, model_loaded, model_path, prediction_cache,
                   np_random, nextSession, cacheEpoch, lastRet>>

\* Mutant of PredictCheck: the result is computed and stored again although
\* the market has an entry.
PredictCheckIgnored(t) ==
    /\ th[t].pc = "p_check"
    /\ Set(t, [th[t] EXCEPT !.pc = "p_flag",
                            !.missed = th[t].market \notin
                                           DOMAIN prediction_cache])
    /\ UNCHANGED <<session, model_loaded, model_path, prediction_cache,
                   np_random, nextSession, cacheEpoch, lastRet>>

\* `if market_id in self.prediction_cache`; `missed` records that the test
\* found no entry.
PredictCheck(t) ==
    /\ th[t].pc = "p_check"
    /\ Set(t, [th[t] EXCEPT !.pc = IF th[t].market \in DOMAIN prediction_cache
                                   THEN "p_hit" ELSE "p_flag",
                            !.missed = th[t].market \notin
                                           DOMAIN prediction_cache])
    /\ UNCHANGED <<session, model_loaded, model_path, prediction_cache,
                   np_random, nextSession, cacheEpoch, lastRet>>

\* `return self.prediction_cache[market_id]`: a second look-up of the key,
\* which raises KeyError when the entry was cleared since the membership test.
PredictHit(t) ==
    /\ th[t].pc = "p_hit"
    /\ LET m == th[t].market IN
       IF m \in DOMAIN prediction_cache
       THEN /\ Set(t, [th[t] EXCEPT !.pc = "done", !.via = "cache",
                                    !.ret = prediction_cache[m]])
            /\ lastRet' = [market |-> m, ret |-> prediction_cache[m]]
       ELSE /\ Set(t, [th[t] EXCEPT !.pc = "done", !.raised = TRUE])
            /\ UNCHANGED lastRet
    /\ UNCHANGED <<session, model_loaded, model_path, prediction_cache,
                   np_random, nextSession, cacheEpoch>>

\* `if self.model_loaded and ...`: the flag is read first.
PredictFlag(t) ==
    /\ th[t].pc = "p_flag"
    /\ Set(t, [th[t] EXCEPT !.pc = IF model_loaded THEN "p_sess" ELSE "f_seed",
                            !.epoch = session])
    /\ UNCHANGED <<session, model_loaded, model_path, prediction_cache,
                   np_random, nextSession, cacheEpoch, lastRet>>

\* Mutant of PredictSess: a feature list that is empty counts as supplied.
PredictSessNotNone(t) ==
    /\ th[t].pc = "p_sess"
    /\ Set(t, [th[t] EXCEPT !.sessSeen = session,
                            !.pc = IF session # 0 /\ th[t].feats # NoFeatures
                                   THEN "o_input" ELSE "f_seed"])
    /\ UNCHANGED <<session, model_loaded, model_path, prediction_cache,
                   np_random, nextSession, cacheEpoch, lastRet>>

\* `... and self.session and features`
PredictSess(t) ==
    /\ th[t].pc = "p_sess"
    /\ Set(t, [th[t] EXCEPT !.sessSeen = session,
                            !.pc = IF session # 0 /\ Truthy(th[t].feats)
                                   THEN "o_input" ELSE "f_seed"])
    /\ UNCHANGED <<session, model_loaded, model_path, prediction_cache,
                   np_random, nextSession, cacheEpoch, lastRet>>

\* _run_onnx_inference: `input_name = self.session.get_inputs()[0].name`
OnnxInput(t) ==
    /\ th[t].pc = "o_input"
    /\ IF session = 0
       THEN Set(t, [th[t] EXCEPT !.pc = "p_store", !.via = "onnx", !.conf = 50,
                                 !.errored = TRUE])
       ELSE Set(t, [th[t] EXCEPT !.pc = "o_run", !.inputFrom = session])
    /\ UNCHANGED <<session, model_loaded, model_path, prediction_cache,
                   np_random, nextSession, cacheEpoch, lastRet>>

\* int(result[0][0] * 100) clamped to 0..100
OnnxConfidence(raw) == Max2(0, Min2(100, TruncDiv(raw, 10)))

\* Mutant of OnnxRun: an exception of session.run leaves predict.
OnnxRunPropagates(t) ==
    /\ th[t].pc = "o_run"
    /\ \/ \E raw \in RawOutputs :
             /\ session # 0
             /\ Set(t, [th[t] EXCEPT !.pc = "p_store", !.via = "onnx",
                                     !.ranOn = session, !.raw = raw,
                                     !.conf = OnnxConfidence(raw)])
       \/ Set(t, [th[t] EXCEPT !.pc = "done", !.via = "onnx",
                               !.ranOn = session, !.raised = TRUE,
                               !.errored = TRUE])
    /\ UNCHANGED <<session, model_loaded, model_path, prediction_cache,
                   np_random, nextSession, cacheEpoch, lastRet>>

\* Mutant of OnnxRun: the 50 of a failed run is returned but not stored.
OnnxRunNotStored(t) ==
    /\ th[t].pc = "o_run"
    /\ \/ /\ \E raw \in RawOutputs :
                /\ session # 0
                /\ Set(t, [th[t] EXCEPT !.pc = "p_store", !.via = "onnx",
                                        !.ranOn = session, !.raw = raw,
                                        !.conf = OnnxConfidence(raw)])
          /\ UNCHANGED lastRet
       \/ /\ Set(t, [th[t] EXCEPT !.pc = "done", !.via = "onnx",
                                  !.ranOn = session, !.ret = 50,
                                  !.errored = TRUE])
          /\ lastRet' = [market |-> th[t].market, ret |-> 50]
    /\ UNCHANGED <<session, model_loaded, model_path, prediction_cache,
                   np_random, nextSession, cacheEpoch>>

\* _run_onnx_inference: `self.session.run(...)`, the conversion of its output,
\* and the handler that turns any exception into 50.
OnnxRun(t) ==
    /\ th[t].pc = "o_run"
    /\ \/ \E raw \in RawOutputs :
             /\ session # 0
             /\ Set(t, [th[t] EXCEPT !.pc = "p_store", !.via = "onnx",
                                     !.ranOn = session, !.raw = raw,
                                     !.conf = OnnxConfidence(raw)])
       \/ Set(t, [th[t] EXCEPT !.pc = "p_store", !.via = "onnx",
                               !.ranOn = session, !.conf = 50,
                               !.errored = TRUE])
    /\ UNCHANGED <<session, model_loaded, model_path, prediction_cache,
                   np_random, nextSession, cacheEpoch, lastRet>>

\* numpy's generator is a function of the seed and of the number of draws
\* taken since; the seed is a function of the market id.  These tables stand
\* for np.random.normal(0, 10) and np.random.uniform(40, 80).
NoiseVals == <<12, 45, -45, -3>>
UniformVals == <<40, 57, 79, 63>>
NormalDraw(g) == NoiseVals[((2 * g.seed + g.pos) % Len(NoiseVals)) + 1]
UniformDraw(g) == UniformVals[((2 * g.seed + g.pos) % Len(UniformVals)) + 1]

\* Mutant of FallbackClamp: the clamp is left out.
FallbackClampNone(c) == c

\* `return max(5, min(95, confidence))`
FallbackClamp(c) == Max2(5, Min2(95, c))

\* The fallback's confidence for a finite feature sum, or with no features.
FallbackConfidence(f, g) ==
    IF Truthy(f)
    THEN FallbackClamp(50 + (SumSeq(f.vec) % 30) - 15 + NormalDraw(g))
    ELSE FallbackClamp(UniformDraw(g))

\* int(base_confidence + noise) raises ValueError when the sum is inf or nan.
FallbackRaises(f) == Truthy(f) /\ ~IsFinite(f.vec)

\* Mutant of FallbackSeed: the generator is not seeded again.
FallbackSeedSkipped(t) ==
    /\ th[t].pc = "f_seed"
    /\ Set(t, [th[t] EXCEPT !.pc = "f_draw"])
    /\ UNCHANGED <<session, model_loaded, model_path, prediction_cache,
                   np_random, nextSession, cacheEpoch, lastRet>>

\* _fallback_prediction: `np.random.seed(seed % (2**32))`
FallbackSeed(t) ==
    /\ th[t].pc = "f_seed"
    /\ np_random' = [seed |-> th[t].market, pos |-> 0]
    /\ Set(t, [th[t] EXCEPT !.pc = "f_draw"])
    /\ UNCHANGED <<session, model_loaded, model_path, prediction_cache,
                   nextSession, cacheEpoch, lastRet>>

\* _fallback_prediction: the draw and the clamp.  An exception leaves predict
\* through its handler: `return 50`, with nothing stored.
FallbackDraw(t) ==
    /\ th[t].pc = "f_draw"
    /\ np_random' = [np_random EXCEPT !.pos = np_random.pos + 1]
    /\ IF FallbackRaises(th[t].feats)
       THEN /\ Set(t, [th[t] EXCEPT !.pc = "done", !.via = "error", !.ret = 50,
                                    !.errored = TRUE])
            /\ lastRet' = [market |-> th[t].market, ret |-> 50]
       ELSE /\ Set(t, [th[t] EXCEPT !.pc = "p_store", !.via = "fallback",
                          !.conf = FallbackConfidence(th[t].feats, np_random)])
            /\ UNCHANGED lastRet
    /\ UNCHANGED <<session, model_loaded, model_path, prediction_cache,
                   nextSession, cacheEpoch>>

\* `self.prediction_cache[market_id] = confidence` and `return confidence`
PredictStore(t) ==
    /\ th[t].pc = "p_store"
    /\ LET m == th[t].market IN
       /\ prediction_cache' = Put(prediction_cache, m, th[t].conf)
       /\ cacheEpoch' = Put(cacheEpoch, m, th[t].epoch)
       /\ lastRet' = [market |-> m, ret |-> th[t].conf]
    /\ Set(t, [th[t] EXCEPT !.pc = "done", !.ret = th[t].conf])
    /\ UNCHANGED <<session, model_loaded, model_path, np_random, nextSession>>

\* The caller has the result.
Return(t) ==
    /\ th[t].pc = "done"
    /\ Set(t, Idle)
    /\ UNCHANGED <<session, model_loaded, model_path, prediction_cache,
                   np_random, nextSession, cacheEpoch, lastRet>>

\* ---------------------------------------------------------- update_model
\* History only: a step of update_model ends every "no updateModel in between".
Forget(t, r) ==
    /\ th' = [u \in Threads |-> IF u = t THEN r
                                ELSE [th[u] EXCEPT !.prev = NoVal]]
    /\ lastRet' = NoRet

\* A caller enters update_model(model_path).
UpdateCall(t, p) ==
    /\ th[t].pc = "idle"
    /\ Forget(t, [Idle EXCEPT !.pc = "u_load", !.op = "update", !.path = p])
    /\ UNCHANGED <<session, model_loaded, model_path, prediction_cache,
                   np_random, nextSession, cacheEpoch>>

\* `new_session = ort.InferenceSession(model_path)` succeeds: a new object.
LoadOk(t) ==
    /\ nextSession <= MaxSessions
    /\ nextSession' = nextSession + 1
    /\ Forget(t, [th[t] EXCEPT !.pc = "u_sess", !.newSess = nextSession])
    /\ UNCHANGED <<session, model_loaded, model_path, prediction_cache,
                   np_random, cacheEpoch>>

\* Mutant of LoadFails: the cache is cleared before the load is attempted.
LoadFailsCleared(t) ==
    /\ prediction_cache' = EmptyCache
    /\ cacheEpoch' = EmptyCache
    /\ Forget(t, [th[t] EXCEPT !.pc = "done", !.ok = FALSE])
    /\ UNCHANGED <<session, model_loaded, model_path, np_random, nextSession>>

\* The import or the load raises: `except Exception: return False`.
LoadFails(t) ==
    /\ Forget(t, [th[t] EXCEPT !.pc = "done", !.ok = FALSE])
    /\ UNCHANGED <<session, model_loaded, model_path, prediction_cache,
                   np_random, nextSession, cacheEpoch>>

UpdateLoad(t) ==
    /\ th[t].pc = "u_load"
    /\ (LoadOk(t) \/ LoadFails(t))

\* `self.session = new_session`
UpdateSetSession(t) ==
    /\ th[t].pc = "u_sess"
    /\ session' = th[t].newSess
    /\ Forget(t, [th[t] EXCEPT !.pc = "u_path"])
    /\ UNCHANGED <<model_loaded, model_path, prediction_cache, np_random,
                   nextSession, cacheEpoch>>

\* `self.model_path = model_path`
UpdateSetPath(t) ==
    /\ th[t].pc = "u_path"
    /\ model_path' = th[t].path
    /\ Forget(t, [th[t] EXCEPT !.pc = "u_flag"])
    /\ UNCHANGED <<session, model_loaded, prediction_cache, np_random,
                   nextSession, cacheEpoch>>

\* `self.model_loaded = True`
UpdateSetLoaded(t) ==
    /\ th[t].pc = "u_flag"
    /\ model_loaded' = TRUE
    /\ Forget(t, [th[t] EXCEPT !.pc = "u_clear"])
    /\ UNCHANGED <<session, model_path, prediction_cache, np_random,
                   nextSession, cacheEpoch>>

\* Mutant of UpdateClear: the cache is kept.
UpdateClearKeeps(t) ==
    /\ th[t].pc = "u_clear"
    /\ Forget(t, [th[t] EXCEPT !.pc = "done", !.ok = TRUE])
    /\ UNCHANGED <<session, model_loaded, model_path, prediction_cache,
                   np_random, nextSession, cacheEpoch>>

\* `self.prediction_cache.clear()` and `return True`
UpdateClear(t) ==
    /\ th[t].pc = "u_clear"
    /\ prediction_cache' = EmptyCache
    /\ cacheEpoch' = EmptyCache
    /\ Forget(t, [th[t] EXCEPT !.pc = "done", !.ok = TRUE])
    /\ UNCHANGED <<session, model_loaded, model_path, np_random, nextSession>>

\* -------------------------------------------------------- get_model_info
\* A caller enters get_model_info; `flagAtCall` records the flag at that
\* moment.
InfoCall(t) ==
    /\ th[t].pc = "idle"
    /\ Set(t, [Idle EXCEPT !.pc = "i_loaded", !.op = "info",
                           !.flagAtCall = model_loaded])
    /\ UNCHANGED <<session, model_loaded, model_path, prediction_cache,
                   np_random, nextSession, cacheEpoch, lastRet>>

\* `'loaded': self.model_loaded`
InfoLoaded(t) ==
    /\ th[t].pc = "i_loaded"
    /\ Set(t, [th[t] EXCEPT !.pc = "i_path", !.info.loaded = model_loaded])
    /\ UNCHANGED <<session, model_loaded, model_path, prediction_cache,
                   np_random, nextSession, cacheEpoch, lastRet>>

\* `'path': self.model_path`
InfoPath(t) ==
    /\ th[t].pc = "i_path"
    /\ Set(t, [th[t] EXCEPT !.pc = "i_type", !.info.path = model_path])
    /\ UNCHANGED <<session, model_loaded, model_path, prediction_cache,
                   np_random, nextSession, cacheEpoch, lastRet>>

\* Mutant of InfoType: the kind is taken from the session.
InfoTypeOfSession(t) ==
    /\ th[t].pc = "i_type"
    /\ Set(t, [th[t] EXCEPT !.pc = "i_size",
                            !.info.type = IF session # 0 THEN "ONNX"
                                          ELSE "Fallback"])
    /\ UNCHANGED <<session, model_loaded, model_path, prediction_cache,
                   np_random, nextSession, cacheEpoch, lastRet>>

\* `'type': 'ONNX' if self.model_loaded else 'Fallback'`
InfoType(t) ==
    /\ th[t].pc = "i_type"
    /\ Set(t, [th[t] EXCEPT !.pc = "i_size",
                            !.info.type = IF model_loaded THEN "ONNX"
                                          ELSE "Fallback"])
    /\ UNCHANGED <<session, model_loaded, model_path, prediction_cache,
                   np_random, nextSession, cacheEpoch, lastRet>>

\* `'cache_size': len(self.prediction_cache)` and the return
InfoSize(t) ==
    /\ th[t].pc = "i_size"
    /\ Set(t, [th[t] EXCEPT !.pc = "done",
                            !.info.cache_size =
                                Cardinality(DOMAIN prediction_cache)])
    /\ UNCHANGED <<session, model_loaded, model_path, prediction_cache,
                   np_random, nextSession, cacheEpoch, lastRet>>

\* ------------------------------------------------------ prepare_features
\* In prepare_features a float is an integer number of hundredths: 0.92 is
\* 92, and 1.0 is One.  A division keeps the whole hundredths.
One == 100

\* An item of a category of oracle_prices: a number, or a value that is no
\* int and no float (None, a string).
Entry(k, v) == [key |-> k, num |-> TRUE, v |-> v]
NotNum(k) == [key |-> k, num |-> FALSE, v |-> 0]

\* A category of oracle_prices: missing, or a dict with its items in order.
Absent == [present |-> FALSE, items |-> << >>]
Dict(s) == [present |-> TRUE, items |-> s]

ForexInputs ==
    {Absent,
     Dict(<<Entry("USD_EUR", 92)>>),
     Dict(<<Entry("USD_EUR", 92), Entry("JPY_GBP", 1)>>),
     Dict(<<Entry("USD_EUR", 92), Entry("JPY_GBP", 1), Entry("EUR_CHF", 95)>>)}

CommodityInputs ==
    {Dict(<< >>),
     Dict(<<Entry("GOLD", 204530), Entry("OIL", 7350)>>)}

CryptoInputs ==
    {Dict(<< >>),
     Dict(<<NotNum("BTC"), Entry("ETH", 0)>>),
     Dict(<<Entry("BTC", 4325000), Entry("ETH", 228050), Entry("SOL", 9875)>>)}

\* The oracle_prices argument.
Snapshots ==
    [forex : ForexInputs, commodities : CommodityInputs, crypto : CryptoInputs]

\* The market_data argument: the dictionary of market 1 or of market 2.
MarketDataInputs == {[id |-> 1], [id |-> 2]}

\* `oracle_prices.get(category, {}).items()`
CategoryItems(oracle_prices, category) ==
    IF oracle_prices[category].present
    THEN oracle_prices[category].items ELSE << >>

\* Mutant of NumericValues: a value that is 0 is skipped as well.
NumericValuesIfTruthy(items) ==
    LET kept == SelectSeq(items, LAMBDA e : e.num /\ e.v # 0)
    IN [i \in 1..Len(kept) |-> kept[i].v]

\* `if isinstance(value, (int, float)): oracle_values.append(float(value))`
NumericValues(items) ==
    LET kept == SelectSeq(items, LAMBDA e : e.num)
    IN [i \in 1..Len(kept) |-> kept[i].v]

\* Mutant of OracleValues: the categories are read crypto first.
OracleValuesCryptoFirst(oracle_prices) ==
    NumericValues(CategoryItems(oracle_prices, "crypto"))
        \o NumericValues(CategoryItems(oracle_prices, "forex"))
        \o NumericValues(CategoryItems(oracle_prices, "commodities"))

\* `for category in ['forex', 'commodities', 'crypto']`
OracleValues(oracle_prices) ==
    NumericValues(CategoryItems(oracle_prices, "forex"))
        \o NumericValues(CategoryItems(oracle_prices, "commodities"))
        \o NumericValues(CategoryItems(oracle_prices, "crypto"))

\* `[0.0] * n`
Zeros(n) == [i \in 1..n |-> 0]

\* s[:n]
Take(s, n) == SubSeq(s, 1, Min2(n, Len(s)))

\* `(oracle_values + [0.0] * 7)[:7]`
PadTruncate(v) == Take(v \o Zeros(7), 7)

RECURSIVE MaxSeq(_)
MaxSeq(s) == IF Len(s) = 1 THEN s[1] ELSE Max2(Head(s), MaxSeq(Tail(s)))

RECURSIVE MinSeq(_)
MinSeq(s) == IF Len(s) = 1 THEN s[1] ELSE Min2(Head(s), MinSeq(Tail(s)))

\* The whole part of the square root of n >= 0, sought between lo and hi.
RECURSIVE SqrtBetween(_, _, _)
SqrtBetween(n, lo, hi) ==
    IF lo >= hi THEN lo
    ELSE LET mid == (lo + hi + 1) \div 2
         IN IF mid * mid <= n THEN SqrtBetween(n, mid, hi)
            ELSE SqrtBetween(n, lo, mid - 1)

\* `variance ** 0.5`, with the deviations taken in whole units.
Volatility(w) ==
    LET mean == SumSeq(w) \div Len(w)
        sq == [i \in 1..Len(w) |->
                  TruncDiv(w[i] - mean, One) * TruncDiv(w[i] - mean, One)]
    IN One * SqrtBetween(SumSeq(sq) \div Len(w), 0, 46340)

\* `sum(1 for i in range(len(oracle_values)-1) if ...)`
UpDays(w) == Cardinality({i \in 1..(Len(w) - 1) : w[i] > w[i + 1]})
DownDays(w) == Cardinality({i \in 1..(Len(w) - 1) : w[i] < w[i + 1]})

\* Mutant of Indicators: the three trailing 0.0 are left out.
IndicatorsNoPad(w) ==
    <<SumSeq(w) \div Len(w), w[1] - w[Len(w)], Volatility(w),
      MaxSeq(w), MinSeq(w), w[1], w[Len(w)],
      One * UpDays(w), One * DownDays(w),
      IF w[Len(w)] # 0 THEN (w[1] * One) \div w[Len(w)] ELSE One,
      IF MaxSeq(w) # 0 THEN ((MaxSeq(w) - MinSeq(w)) * One) \div MaxSeq(w)
      ELSE 0>>

\* Mutant of Indicators: the ratio is 0.0 when the last value is 0.
IndicatorsRatioZero(w) ==
    <<SumSeq(w) \div Len(w), w[1] - w[Len(w)], Volatility(w),
      MaxSeq(w), MinSeq(w), w[1], w[Len(w)],
      One * UpDays(w), One * DownDays(w),
      IF w[Len(w)] # 0 THEN (w[1] * One) \div w[Len(w)] ELSE 0,
      IF MaxSeq(w) # 0 THEN ((MaxSeq(w) - MinSeq(w)) * One) \div MaxSeq(w)
      ELSE 0,
      0, 0, 0>>

\* The fourteen indicators computed from the seven oracle values.
Indicators(w) ==
    <<SumSeq(w) \div Len(w), w[1] - w[Len(w)], Volatility(w),
      MaxSeq(w), MinSeq(w), w[1], w[Len(w)],
      One * UpDays(w), One * DownDays(w),
      IF w[Len(w)] # 0 THEN (w[1] * One) \div w[Len(w)] ELSE One,
      IF MaxSeq(w) # 0 THEN ((MaxSeq(w) - MinSeq(w)) * One) \div MaxSeq(w)
      ELSE 0,
      0, 0, 0>>

\* Mutant of PrepareFeatures: the market's id is added to the first slot.
PrepareFeaturesOfMarket(oracle_prices, market_data) ==
    LET oracle_values == PadTruncate(OracleValues(oracle_prices))
    IN Take(<<oracle_values[1] + market_data.id>> \o Tail(oracle_values)
                \o Indicators(oracle_values), 21)

\* prepare_features(oracle_prices, market_data): the returned list.
PrepareFeatures(oracle_prices, market_data) ==
    LET oracle_values == PadTruncate(OracleValues(oracle_prices))
    IN Take(oracle_values
                \o (IF Len(oracle_values) >= 7 THEN Indicators(oracle_values)
                    ELSE Zeros(14)),
            21)

\* No prepare_features call has been made.
NotBuilt ==
    [called |-> FALSE, arg |-> [forex |-> Absent, commodities |-> Absent,
                                crypto |-> Absent],
     oracle_prices |-> [forex |-> Absent, commodities |-> Absent,
                        crypto |-> Absent],
     market_data |-> [id |-> 0], features |-> << >>, again |-> FALSE]

BuildInit == built = NotBuilt

\* A handler calls prepare_features(oracle_prices, market_data), before its
\* predict call or without one.  The method
\* reads its first argument only and assigns to locals only: `arg` is the
\* dictionary passed, `oracle_prices` the same dictionary after the call;
\* `again` records that the call before was made with the same dictionary.
Build(t, p, md) ==
    /\ th[t].pc = "idle"
    /\ built' = [called |-> TRUE, arg |-> p, oracle_prices |-> p,
                 market_data |-> md, features |-> PrepareFeatures(p, md),
                 again |-> built.called /\ built.arg = p]
    /\ UNCHANGED <<aiVars, oracleVars>>

\* ============================================================== oracle
\* self.cache_ttl: ORACLE_CACHE_TTL, 60 seconds by default, in clock units.
cache_ttl == 2

\* No datetime: `self.last_update = {}`.
NoTime == 0 - 1

EmptyDict == [x \in {} |-> 0]

\* `self.cache = {}`: the empty dictionary is object 0.
NoPrices ==
    [id |-> 0, timestamp |-> NoTime, forex |-> EmptyDict,
     commodities |-> EmptyDict, crypto |-> EmptyDict]

\* The assignments of fetch_all_prices, in their order.
Assets == <<"USD_EUR", "JPY_GBP", "GOLD", "OIL", "BTC", "ETH", "SOL">>

Category(sym) ==
    CASE sym \in {"USD_EUR", "JPY_GBP"} -> "forex"
      [] sym \in {"GOLD", "OIL"} -> "commodities"
      [] OTHER -> "crypto"

\* Mutant of AssetKey: the crypto fetchers pass the symbol, not the coin id.
AssetKeySymbol(sym) == sym

\* The argument each fetcher hands to _get_mock_price.
AssetKey(sym) ==
    CASE sym = "BTC" -> "bitcoin"
      [] sym = "ETH" -> "ethereum"
      [] sym = "SOL" -> "solana"
      [] OTHER -> sym

\* _get_mock_price, prices in ten-thousandths (0.92 is 9200).
MockPrice(asset) ==
    CASE asset = "USD_EUR" -> 9200
      [] asset = "JPY_GBP" -> 56
      [] asset = "GOLD" -> 20453000
      [] asset = "OIL" -> 735000
      [] asset = "bitcoin" -> 432500000
      [] asset = "ethereum" -> 22805000
      [] asset = "solana" -> 987500
      [] OTHER -> 1000000

\* The price an upstream answers with: some value other than the mock price.
Quote(sym) == MockPrice(AssetKey(sym)) + 10000

\* What a request to an upstream does: it answers with the price ("live"),
\* answers without the key asked for ("missing"), or fails ("raise": a
\* timeout, a transport error, a body that is not the expected JSON).
Outcomes == {"live", "missing", "raise"}

\* _fetch_forex_price with use_fallback = True
FetchForexPrice(sym, out) ==
    CASE out = "live" -> Quote(sym)
      [] out = "missing" -> 0
      [] OTHER -> MockPrice(AssetKey(sym))

\* _fetch_commodity_price with use_fallback = True: no request is made.
FetchCommodityPrice(sym) ==
    CASE sym = "GOLD" -> 20453000
      [] sym = "OIL" -> 735000
      [] OTHER -> 0

\* _fetch_crypto_price with use_fallback = True
FetchCryptoPrice(sym, out) ==
    CASE out = "live" -> Quote(sym)
      [] out = "missing" -> 0
      [] OTHER -> MockPrice(AssetKey(sym))

FetchPrice(sym, out) ==
    CASE Category(sym) = "forex" -> FetchForexPrice(sym, out)
      [] Category(sym) = "commodities" -> FetchCommodityPrice(sym)
      [] OTHER -> FetchCryptoPrice(sym, out)

\* prices[category][sym] = v
PutPrice(p, sym, v) ==
    CASE Category(sym) = "forex" -> [p EXCEPT !.forex = Put(@, sym, v)]
      [] Category(sym) = "commodities" ->
            [p EXCEPT !.commodities = Put(@, sym, v)]
      [] OTHER -> [p EXCEPT !.crypto = Put(@, sym, v)]

\* Mutant of IsStale: a cache exactly cache_ttl old is refreshed.
IsStaleAtTtl(age) == age >= cache_ttl

\* `age > self.cache_ttl`
IsStale(age) == age > cache_ttl

\* The result of get_consensus_price: None, or a price.
None == [found |-> FALSE, price |-> 0]
Price(v) == [found |-> TRUE, price |-> v]

\* A time zone of the host: local times from `at` on are read with a UTC
\* offset that is `shift` larger than the offset of the local times before.
NoShift == [at |-> 0, shift |-> 0]

OIdle ==
    [pc |-> "idle", op |-> "none", prices |-> NoPrices, k |-> 0,
     ret |-> NoPrices, callTime |-> NoTime, callUpd |-> NoTime,
     callStamp |-> NoTime, callId |-> 0, allRaised |-> FALSE,
     oracle_name |-> "", result |-> None, timeframe |-> "", zone |-> NoShift,
     num_points |-> 0, i |-> 0, base_price |-> 0, history |-> << >>,
     outs |-> << >>]

OracleInit ==
    /\ cache = NoPrices
    /\ last_update = NoTime
    /\ now = 0
    /\ nextSnap = 1
    /\ ot = [t \in OThreads |-> OIdle]

OSet(t, r) == ot' = [ot EXCEPT ![t] = r]

\* update_oracle_prices (the scheduler's job) calls fetch_all_prices.
RefreshCall(t) ==
    /\ ot[t].pc = "idle"
    /\ OSet(t, [OIdle EXCEPT !.pc = "f_begin", !.op = "refresh"])
    /\ UNCHANGED <<cache, last_update, now, nextSnap>>

\* get_cached_prices, the staleness test: a stale cache is refreshed.
GetCall(t) ==
    /\ ot[t].pc = "idle"
    /\ OSet(t, [OIdle EXCEPT
            !.op = "get", !.callTime = now, !.callUpd = last_update,
            !.callStamp = cache.timestamp, !.callId = cache.id,
            !.pc = IF last_update # NoTime /\ IsStale(now - last_update)
                   THEN "f_begin" ELSE "g_read"])
    /\ UNCHANGED <<cache, last_update, now, nextSnap>>

\* Where get_cached_prices returns to: its caller in the handler, or line 113
\* of get_consensus_price.
Returned(r) == IF r.op \in {"consensus", "history"} THEN "c_look" ELSE "done"

\* get_cached_prices: `return self.cache if self.cache else
\* self.fetch_all_prices()`
GetRead(t) ==
    /\ ot[t].pc = "g_read"
    /\ IF cache.id # 0
       THEN OSet(t, [ot[t] EXCEPT !.pc = Returned(ot[t]), !.ret = cache])
       ELSE OSet(t, [ot[t] EXCEPT !.pc = "f_begin"])
    /\ UNCHANGED <<cache, last_update, now, nextSnap>>

\* Mutant of FetchBegin: the new dictionary is published before it is filled.
FetchBeginPublishes(t) ==
    /\ ot[t].pc = "f_begin"
    /\ nextSnap <= MaxSnap
    /\ nextSnap' = nextSnap + 1
    /\ cache' = [NoPrices EXCEPT !.id = nextSnap, !.timestamp = now]
    /\ OSet(t, [ot[t] EXCEPT !.pc = "f_fetch", !.k = 1, !.allRaised = TRUE,
                             !.prices = [NoPrices EXCEPT !.id = nextSnap,
                                                         !.timestamp = now]])
    /\ UNCHANGED <<last_update, now>>

\* fetch_all_prices: the new dictionary, with its timestamp.
FetchBegin(t) ==
    /\ ot[t].pc = "f_begin"
    /\ nextSnap <= MaxSnap
    /\ nextSnap' = nextSnap + 1
    /\ OSet(t, [ot[t] EXCEPT !.pc = "f_fetch", !.k = 1, !.allRaised = TRUE,
                             !.prices = [NoPrices EXCEPT !.id = nextSnap,
                                                         !.timestamp = now]])
    /\ UNCHANGED <<cache, last_update, now>>

\* What the fetcher of a symbol met: the outcome of its request, or "static"
\* for a commodity, whose fetcher makes no request.
Met(sym, out) == IF Category(sym) = "commodities" THEN "static" ELSE out

\* Mutant of FetchAsset: a request that fails ends the loop of assignments.
FetchAssetAborts(t, Outs) ==
    /\ ot[t].pc = "f_fetch"
    /\ \E out \in Outs :
          LET sym == Assets[ot[t].k]
              p == IF Met(sym, out) = "raise" THEN ot[t].prices
                   ELSE PutPrice(ot[t].prices, sym, FetchPrice(sym, out))
          IN /\ OSet(t, [ot[t] EXCEPT
                    !.prices = p,
                    !.k = @ + 1,
                    !.outs = Append(@, Met(sym, out)),
                    !.allRaised = @ /\ (out = "raise"
                                        \/ Category(sym) = "commodities"),
                    !.pc = IF ot[t].k = Len(Assets) \/ Met(sym, out) = "raise"
                           THEN "f_publish" ELSE "f_fetch"])
             /\ cache' = IF cache.id = p.id THEN p ELSE cache
    /\ UNCHANGED <<last_update, now, nextSnap>>

\* fetch_all_prices: one of the seven assignments.  The fetchers catch every
\* exception, so the assignment always takes place.  The dictionary written
\* is an object: a published one is written through self.cache as well.
\* `outs` records what each fetcher met.
FetchAsset(t, Outs) ==
    /\ ot[t].pc = "f_fetch"
    /\ \E out \in Outs :
          LET sym == Assets[ot[t].k]
              p == PutPrice(ot[t].prices, sym, FetchPrice(sym, out))
          IN /\ OSet(t, [ot[t] EXCEPT
                    !.prices = p,
                    !.k = @ + 1,
                    !.outs = Append(@, Met(sym, out)),
                    !.allRaised = @ /\ (out = "raise"
                                        \/ Category(sym) = "commodities"),
                    !.pc = IF ot[t].k = Len(Assets)
                           THEN "f_publish" ELSE "f_fetch"])
             /\ cache' = IF cache.id = p.id THEN p ELSE cache
    /\ UNCHANGED <<last_update, now, nextSnap>>

\* `self.cache = prices`
Publish(t) ==
    /\ ot[t].pc = "f_publish"
    /\ cache' = ot[t].prices
    /\ OSet(t, [ot[t] EXCEPT !.pc = "f_stamp"])
    /\ UNCHANGED <<last_update, now, nextSnap>>

\* `self.last_update = datetime.now()` and `return prices`
Stamp(t) ==
    /\ ot[t].pc = "f_stamp"
    /\ last_update' = now
    /\ OSet(t, [ot[t] EXCEPT !.pc = Returned(ot[t]), !.ret = ot[t].prices])
    /\ UNCHANGED <<cache, now, nextSnap>>

\* ---------------------------------------------------- get_consensus_price
\* Where a get_cached_prices call begins: the staleness test.
GetEntry == IF last_update # NoTime /\ IsStale(now - last_update)
            THEN "f_begin" ELSE "g_read"

\* A caller enters get_consensus_price(oracle_name):
\* `prices = self.get_cached_prices()`
ConsensusCall(t, n) ==
    /\ ot[t].pc = "idle"
    /\ OSet(t, [OIdle EXCEPT
            !.op = "consensus", !.oracle_name = n, !.callTime = now,
            !.callUpd = last_update, !.callStamp = cache.timestamp,
            !.callId = cache.id, !.pc = GetEntry])
    /\ UNCHANGED <<cache, last_update, now, nextSnap>>

\* Mutant of ConsensusPrice: a price of 0.0 counts as no price.
ConsensusPriceIfTruthy(prices, oracle_name) ==
    IF oracle_name \in DOMAIN prices.forex /\ prices.forex[oracle_name] # 0
    THEN Price(prices.forex[oracle_name])
    ELSE IF oracle_name \in DOMAIN prices.commodities
            /\ prices.commodities[oracle_name] # 0
    THEN Price(prices.commodities[oracle_name])
    ELSE IF oracle_name \in DOMAIN prices.crypto
            /\ prices.crypto[oracle_name] # 0
    THEN Price(prices.crypto[oracle_name])
    ELSE None

\* `for category in ['forex', 'commodities', 'crypto']:
\*      if oracle_name in prices.get(category, {}): return ...`; `return None`
ConsensusPrice(prices, oracle_name) ==
    IF oracle_name \in DOMAIN prices.forex
    THEN Price(prices.forex[oracle_name])
    ELSE IF oracle_name \in DOMAIN prices.commodities
    THEN Price(prices.commodities[oracle_name])
    ELSE IF oracle_name \in DOMAIN prices.crypto
    THEN Price(prices.crypto[oracle_name])
    ELSE None

\* get_consensus_price: the search, in the dictionary get_cached_prices
\* returned.
ConsensusLookup(t) ==
    /\ ot[t].pc = "c_look"
    /\ OSet(t, [ot[t] EXCEPT
            !.result = ConsensusPrice(ot[t].ret, ot[t].oracle_name),
            !.pc = IF ot[t].op = "history" THEN "h_begin" ELSE "done"])
    /\ UNCHANGED <<cache, last_update, now, nextSnap>>

\* A caller that was handed a dictionary writes to it:
\* `prices['crypto']['BTC'] = ...`.  The dictionary is an object: when it is
\* the published one, self.cache shows the write.
CallerWrites(t) ==
    /\ ot[t].pc = "done"
    /\ ot[t].op \in {"get", "refresh"}
    /\ ot[t].ret.id # 0
    /\ ot[t].ret.crypto["BTC"] # 1
    /\ OSet(t, [ot[t] EXCEPT !.ret = PutPrice(@, "BTC", 1)])
    /\ cache' = IF cache.id = ot[t].ret.id
                THEN PutPrice(cache, "BTC", 1) ELSE cache
    /\ UNCHANGED <<last_update, now, nextSnap>>

\* ------------------------------------------------------ get_price_history
\* Durations in units of the clock (30 seconds).
Minute == 2
Hour == 60 * Minute

\* A host on UTC, and a host whose clocks went forward by one hour half an
\* hour before time 0 (the local times of the skipped hour are read with the
\* offset before the change, as datetime.timestamp does).
Zones == {NoShift, [at |-> 0 - 30 * Minute, shift |-> Hour]}

\* `int(timestamp.timestamp())` of a naive local datetime.
Timestamp(zone, local) == IF local >= zone.at THEN local - zone.shift ELSE local

Timeframes == {"1h", "24h", "7d", "30d", "1y"}

\* `points_map.get(timeframe, 100)`
NumPoints(timeframe) ==
    CASE timeframe = "1h" -> 60
      [] timeframe = "24h" -> 288
      [] timeframe = "7d" -> 168
      [] timeframe = "30d" -> 720
      [] OTHER -> 100

\* The local time of point i, for i in 0..num_points-1.
PointTime(timeframe, num_points, i, t0) ==
    CASE timeframe = "1h" -> t0 - (num_points - i) * Minute
      [] timeframe = "24h" -> t0 - (num_points - i) * 5 * Minute
      [] OTHER -> t0 - (num_points - i) * Hour

\* A handler calls get_price_history(oracle_name, timeframe) on a host in
\* time zone z: `base_price = self.get_consensus_price(oracle_name) or 100.0`
\* begins with get_cached_prices.
HistoryCall(t, n, tf, z) ==
    /\ ot[t].pc = "idle"
    /\ OSet(t, [OIdle EXCEPT
            !.op = "history", !.oracle_name = n, !.timeframe = tf,
            !.zone = z, !.num_points = NumPoints(tf), !.callTime = now,
            !.callUpd = last_update, !.callStamp = cache.timestamp,
            !.callId = cache.id, !.pc = GetEntry])
    /\ UNCHANGED <<cache, last_update, now, nextSnap>>

\* `... or 100.0`, `history = []`, `now = datetime.now()`
HistoryBegin(t) ==
    /\ ot[t].pc = "h_begin"
    /\ OSet(t, [ot[t] EXCEPT
            !.base_price = IF ot[t].result.found /\ ot[t].result.price # 0
                           THEN ot[t].result.price ELSE 1000000,
            !.callTime = now,
            !.history = << >>,
            !.i = 0,
            !.pc = "h_loop"])
    /\ UNCHANGED <<cache, last_update, now, nextSnap>>

\* One turn of `for i in range(num_points)`, or its end and `return history`.
\* The variation drawn by random.uniform is left out of the price.
HistoryPoint(t) ==
    /\ ot[t].pc = "h_loop"
    /\ IF ot[t].i < ot[t].num_points
       THEN OSet(t, [ot[t] EXCEPT
                !.history = Append(@,
                    [timestamp |->
                         Timestamp(ot[t].zone,
                                   PointTime(ot[t].timeframe, ot[t].num_points,
                                             ot[t].i, ot[t].callTime)),
                     price |-> ot[t].base_price]),
                !.i = @ + 1])
       ELSE OSet(t, [ot[t] EXCEPT !.pc = "done"])
    /\ UNCHANGED <<cache, last_update, now, nextSnap>>

\* The caller has the dictionary.
OReturn(t) ==
    /\ ot[t].pc = "done"
    /\ OSet(t, OIdle)
    /\ UNCHANGED <<cache, last_update, now, nextSnap>>

\* Time passes.
Tick ==
    /\ now < MaxTime
    /\ now' = now + 1
    /\ UNCHANGED <<cache, last_update, nextSnap, ot>>

\* ------------------------------------------- from the oracle to the builder
\* A price of the oracle service (ten-thousandths) in the unit of
\* prepare_features (hundredths).
Hundredths(v) == v \div 100

\* A category of a dictionary of the oracle service as prepare_features
\* iterates it: its keys in the order fetch_all_prices assigned them.
AsCategory(prices, category) ==
    LET syms == SelectSeq(Assets, LAMBDA sym :
                    Category(sym) = category
                    /\ sym \in DOMAIN prices[category])
    IN Dict([i \in 1..Len(syms) |->
                Entry(syms[i], Hundredths(prices[category][syms[i]]))])

AsSnapshot(prices) ==
    [forex |-> AsCategory(prices, "forex"),
     commodities |-> AsCategory(prices, "commodities"),
     crypto |-> AsCategory(prices, "crypto")]

\* get_ai_prediction: `features = ai_service.prepare_features(oracle_prices,
\* market_data)` with the dictionary get_cached_prices has returned.
HandlerBuilds(t) ==
    /\ ot[t].pc = "done" /\ ot[t].op = "get"
    /\ ~built.called
    /\ \E md \in MarketDataInputs : Build(t, AsSnapshot(ot[t].ret), md)

\* The handler returns: its locals are gone.
HandlerReturns(t) ==
    /\ OReturn(t)
    /\ built' = NotBuilt
    /\ UNCHANGED aiVars

\* ------------------------------------------------------- specifications
Init == AIInit /\ OracleInit /\ BuildInit

\* One step of a predict call of caller t.
PredictStep(t, Ms, Fs) ==
    \/ \E m \in Ms, f \in Fs : PredictCall(t, m, f)
    \/ PredictCheck(t)
    \/ PredictHit(t)
    \/ PredictFlag(t)
    \/ PredictSess(t)
    \/ OnnxInput(t)
    \/ OnnxRun(t)
    \/ FallbackSeed(t)
    \/ FallbackDraw(t)
    \/ PredictStore(t)

\* One step of caller t of the predictor.
AIStep(t, Ms, Fs) ==
    \/ PredictStep(t, Ms, Fs)
    \/ \E p \in Paths : UpdateCall(t, p)
    \/ UpdateLoad(t)
    \/ UpdateSetSession(t)
    \/ UpdateSetPath(t)
    \/ UpdateSetLoaded(t)
    \/ UpdateClear(t)
    \/ Return(t)

\* One step of caller t of the oracle service.
OracleStep(t, Outs) ==
    \/ RefreshCall(t)
    \/ GetCall(t)
    \/ GetRead(t)
    \/ FetchBegin(t)
    \/ FetchAsset(t, Outs)
    \/ Publish(t)
    \/ Stamp(t)
    \/ OReturn(t)

\* Callers on several threads; their inputs are a part of the sequential ones.
ConcMarkets == 1..MaxConcMarket
ConcFeatures == {NoFeatures, Vec(<<7, 20>>)}
AINext ==
    /\ \E t \in Threads : AIStep(t, ConcMarkets, ConcFeatures)
    /\ UNCHANGED <<oracleVars, built>>

\* One caller: every call runs to its end before the next begins.
AISeqNext ==
    /\ AIStep(1, Markets, FeatureInputs)
    /\ UNCHANGED <<oracleVars, built>>

\* The scheduler's job and the request handlers, on several threads, while
\* no upstream can be reached.
ConcOutcomes == {"raise"}
OracleNext ==
    /\ (Tick \/ \E t \in OThreads : OracleStep(t, ConcOutcomes))
    /\ UNCHANGED <<aiVars, built>>

\* One caller of the oracle service, and the clock; every request is answered
\* or fails.
SeqOutcomes == {"live", "raise"}
OracleSeqNext ==
    /\ (Tick \/ OracleStep(1, SeqOutcomes))
    /\ UNCHANGED <<aiVars, built>>

\* One caller of the oracle service with every outcome of every request; the
\* clock stands still.
FetchNext ==
    /\ OracleStep(1, Outcomes)
    /\ UNCHANGED <<aiVars, built>>

\* One caller that reads prices, asks for the price of a symbol, and may write
\* to a dictionary it was handed; requests are answered without the key asked
\* for, or fail.
CallerOutcomes == {"missing", "raise"}
ConsensusNames == {"BTC", "GOLD", "DOGE"}
CallerNext ==
    /\ \/ Tick
       \/ OracleStep(1, CallerOutcomes)
       \/ \E n \in ConsensusNames : ConsensusCall(1, n)
       \/ ConsensusLookup(1)
       \/ CallerWrites(1)
    /\ UNCHANGED <<aiVars, built>>

\* The handler of /oracles/history, on a host in one of the time zones, while
\* no upstream can be reached; the clock stands still.
HistoryNames == {"GOLD", "DOGE"}
HistoryNext ==
    /\ \/ OracleStep(1, ConcOutcomes)
       \/ \E n \in HistoryNames, tf \in Timeframes, z \in Zones :
             HistoryCall(1, n, tf, z)
       \/ ConsensusLookup(1)
       \/ HistoryBegin(1)
       \/ HistoryPoint(1)
    /\ UNCHANGED <<aiVars, built>>

\* The handlers of routes/predictions.py and routes/markets.py: one caller
\* that calls prepare_features and predict, with the model that was loaded
\* at start-up or with none.
BuildNext ==
    \/ \E p \in Snapshots, md \in MarketDataInputs : Build(1, p, md)
    \/ /\ (PredictStep(1, ConcMarkets, ConcFeatures) \/ Return(1))
       /\ UNCHANGED <<oracleVars, built>>

\* The two services share no state (app.py builds one object of each and the
\* routes only pass values from one to the other), so each is checked under
\* its own specification below; Spec is their interleaving.
Next == AINext \/ OracleNext

Spec == Init /\ [][Next]_vars

SpecAI == Init /\ [][AINext]_vars

SpecAISeq == Init /\ [][AISeqNext]_vars

SpecOracle == Init /\ [][OracleNext]_vars

SpecOracleSeq == Init /\ [][OracleSeqNext]_vars

SpecFetch == Init /\ [][FetchNext]_vars

SpecBuild == Init /\ [][BuildNext]_vars

SpecCaller == Init /\ [][CallerNext]_vars

SpecHistory == Init /\ [][HistoryNext]_vars

\* The scheduler's job and the handler of /ai/predict one after the other:
\* the handler builds the features from the dictionary it is handed; every
\* outcome of every request; the clock stands still.
PipelineNext ==
    \/ /\ \/ RefreshCall(1) \/ GetCall(1) \/ GetRead(1) \/ FetchBegin(1)
          \/ FetchAsset(1, Outcomes) \/ Publish(1) \/ Stamp(1)
       /\ UNCHANGED <<aiVars, built>>
    \/ HandlerBuilds(1)
    \/ HandlerReturns(1)

SpecPipeline == Init /\ [][PipelineNext]_vars

\* The predictor under concurrent callers that also ask for get_model_info
\* (routes/predictions.py:60).
InfoStep(t) ==
    \/ InfoCall(t) \/ InfoLoaded(t) \/ InfoPath(t) \/ InfoType(t)
    \/ InfoSize(t)

InfoNext ==
    /\ \E t \in Threads :
          AIStep(t, ConcMarkets, ConcFeatures) \/ InfoStep(t)
    /\ UNCHANGED <<oracleVars, built>>

SpecInfo == Init /\ [][InfoNext]_vars

\* ----------------------------------------------------------------- claims
PredictDone(t) == th[t].pc = "done" /\ th[t].op = "predict"
UpdateDone(t) == th[t].pc = "done" /\ th[t].op = "update"

\* C1 (as claimed): a predict call for market m that follows a predict call
\* for m which returned v, with no step of update_model since, returns v.
C1_NextPredictReturnsSame ==
    \A t \in Threads :
        (PredictDone(t) /\ ~th[t].raised /\ th[t].prev # NoVal)
            => th[t].ret = th[t].prev

\* C6: the steps of an update_model call that fails (its entry, and the load
\* that raises) return False and leave session, model_loaded, model_path and
\* every entry of prediction_cache as they were.
C6_FailedUpdateChangesNothing ==
    [][\A t \in Threads :
          (\/ th[t].pc = "idle" /\ th'[t].pc = "u_load"
           \/ th[t].pc = "u_load" /\ th'[t].pc = "done")
          => /\ UNCHANGED <<session, model_loaded, model_path,
                            prediction_cache>>
             /\ th'[t].pc = "done" => ~th'[t].ok]_vars

\* C6 witness: update_model has failed while a loaded backend serves and the
\* cache holds entries.
C6_Witness ==
    \E t \in Threads :
        /\ UpdateDone(t) /\ ~th[t].ok
        /\ model_loaded /\ session # 0
        /\ prediction_cache # EmptyCache

\* C7: with one caller, when update_model returns True the cache is empty and
\* the new session is the active one, and every value predict returns from
\* the cache was computed under the session that is active now.
C7_SuccessfulUpdateInvalidates ==
    \A t \in Threads :
        /\ (UpdateDone(t) /\ th[t].ok)
              => /\ prediction_cache = EmptyCache
                 /\ session = th[t].newSess
                 /\ model_loaded
        /\ (PredictDone(t) /\ th[t].via = "cache")
              => cacheEpoch[th[t].market] = session

\* C7 witness: update_model has returned True, replacing an earlier session.
C7_Witness ==
    \E t \in Threads :
        UpdateDone(t) /\ th[t].ok /\ session > 1 /\ th[t].path # 0

C9_ConfidenceInRange ==
    /\ \A m \in DOMAIN prediction_cache : prediction_cache[m] \in 0..100
    /\ \A t \in Threads :
          /\ (PredictDone(t) /\ ~th[t].raised) => th[t].ret \in 0..100
          /\ th[t].via = "fallback" => th[t].conf \in 5..95
          /\ (PredictDone(t) /\ th[t].via \in {"fallback", "error"})
                => th[t].ret \in 5..95

\* C9 witness: the fallback has clamped its result for an all-zero vector.
C9_Witness ==
    \E t \in Threads :
        /\ PredictDone(t) /\ th[t].via = "fallback"
        /\ th[t].feats = Vec(<<0, 0>>)
        /\ th[t].ret = 5

\* C10: with one caller predict never raises, and a call in which the ONNX
\* session or the fallback raised returns 50.
C10_ErrorsBecomeNeutral ==
    \A t \in Threads :
        PredictDone(t) => /\ ~th[t].raised
                          /\ th[t].errored => th[t].ret = 50

\* C10 witness: session.run has raised and predict has returned 50.
C10_Witness ==
    \E t \in Threads :
        PredictDone(t) /\ th[t].errored /\ th[t].via = "onnx" /\ th[t].ret = 50

\* Every configured symbol is a key of its category, and of no other.
Complete(p) ==
    /\ DOMAIN p.forex = {"USD_EUR", "JPY_GBP"}
    /\ DOMAIN p.commodities = {"GOLD", "OIL"}
    /\ DOMAIN p.crypto = {"BTC", "ETH", "SOL"}

InFetch(t) == ot[t].pc \in {"f_fetch", "f_publish", "f_stamp"}

C3_AtMostOneRefresh ==
    Cardinality({t \in OThreads : InFetch(t)}) <= 1

\* C4: self.cache is {} or holds all seven symbols, each in its category; a
\* dictionary handed to a caller holds all seven; and the dictionary that is
\* published is never written again.
C4_PublishedIsCompleteAndFrozen ==
    /\ [](cache.id = 0 \/ Complete(cache))
    /\ [](\A t \in OThreads : ot[t].pc = "done" => Complete(ot[t].ret))
    /\ [][(cache.id # 0 /\ cache'.id = cache.id) => cache' = cache]_vars

\* C4 witness: one caller fills its dictionary while another has just been
\* handed the published one.
C4_Witness ==
    \E t, u \in OThreads :
        /\ t # u
        /\ ot[t].pc = "f_fetch" /\ ot[t].k > 1
        /\ ot[u].pc = "done" /\ ot[u].op = "get"
        /\ cache.id # 0

\* The mock prices, as the dictionary that holds them all.
AllDefaults(p) ==
    /\ p.forex = ("USD_EUR" :> 9200 @@ "JPY_GBP" :> 56)
    /\ p.commodities = ("GOLD" :> 20453000 @@ "OIL" :> 735000)
    /\ p.crypto = ("BTC" :> 432500000 @@ "ETH" :> 22805000 @@ "SOL" :> 987500)

\* C5: fetch_all_prices returns a dictionary that holds every configured
\* symbol, and when every request has failed each price is the mock price.
C5_RefreshAlwaysComplete ==
    \A t \in OThreads :
        (ot[t].pc \in {"f_publish", "f_stamp", "done"} /\ ot[t].prices.id # 0)
            => /\ Complete(ot[t].prices)
               /\ ot[t].allRaised => AllDefaults(ot[t].prices)
               /\ ot[t].pc = "done" => ot[t].ret = ot[t].prices

\* C5 witness: a refresh in which every request failed has returned.
C5_Witness ==
    \E t \in OThreads :
        ot[t].pc = "done" /\ ot[t].op = "refresh" /\ ot[t].allRaised

NumericItems(p) ==
    SelectSeq(CategoryItems(p, "forex"), LAMBDA e : e.num)
        \o SelectSeq(CategoryItems(p, "commodities"), LAMBDA e : e.num)
        \o SelectSeq(CategoryItems(p, "crypto"), LAMBDA e : e.num)

\* The dictionary of the example: one forex price, no commodity, three
\* crypto prices.
ExampleSnapshot ==
    [forex |-> Dict(<<Entry("USD_EUR", 92)>>),
     commodities |-> Dict(<< >>),
     crypto |-> Dict(<<Entry("BTC", 4325000), Entry("ETH", 228050),
                       Entry("SOL", 9875)>>)]

\* C16: slot i of the first seven is the i-th numeric price met in the order
\* forex, commodities, crypto, and 0.0 when there are fewer than i; the
\* example gives [0.92, 43250.0, 2280.5, 98.75, 0.0, 0.0, 0.0].
C16_FirstSevenSlots ==
    built.called =>
        /\ \A i \in 1..7 :
              built.features[i] =
                  IF i <= Len(NumericItems(built.arg))
                  THEN NumericItems(built.arg)[i].v ELSE 0
        /\ built.arg = ExampleSnapshot =>
              SubSeq(built.features, 1, 7)
                  = <<92, 4325000, 228050, 9875, 0, 0, 0>>

\* C16 witness: the dictionary of the example was built.
C16_Witness ==
    built.called /\ built.arg = ExampleSnapshot

C20_ReturnedValueIsCached ==
    \A t \in Threads :
        (PredictDone(t) /\ ~th[t].raised /\ th[t].via # "cache")
            => /\ th[t].market \in DOMAIN prediction_cache
               /\ prediction_cache[th[t].market] = th[t].ret

\* C19 (as claimed): a get_cached_prices call that returns the published
\* dictionary without refreshing it was made at most cache_ttl after the
\* timestamp the dictionary carries.
C19_FreshMeasuredFromTakenAt ==
    \A t \in OThreads :
        (/\ ot[t].pc = "done" /\ ot[t].op = "get"
         /\ ot[t].callId # 0 /\ ot[t].ret.id = ot[t].callId)
            => ot[t].callTime - ot[t].ret.timestamp <= cache_ttl

\* The confidence of each market when predict is given no features.
FallbackOfMarket == <<79, 40, 79>>

\* C13: with one caller, a predict call without features that the fallback
\* answers returns the confidence of its market: the same in every run, after
\* any earlier calls for other markets, before and after update_model has
\* cleared the cache.
C13_FallbackIsFunctionOfMarket ==
    \A t \in Threads :
        (PredictDone(t) /\ th[t].via = "fallback" /\ ~Truthy(th[t].feats))
            => th[t].ret = FallbackOfMarket[th[t].market]

\* C13 witness: after update_model has cleared the cache and market 1 has
\* been predicted again, the fallback answers for market 2.
C13_Witness ==
    \E t \in Threads :
        /\ PredictDone(t) /\ th[t].via = "fallback" /\ ~Truthy(th[t].feats)
        /\ th[t].market = 2
        /\ model_path = 1
        /\ 1 \in DOMAIN prediction_cache

\* A step that ends a successful update_model: the cache is cleared.
ClearStep ==
    \E t \in Threads : th[t].pc = "u_clear" /\ th'[t].pc = "done"

C14_CallerWriteStaysPrivate ==
    [][\A t \in OThreads :
          (/\ ot[t].pc = "done" /\ ot'[t].pc = "done"
           /\ ot'[t].ret # ot[t].ret)
              => cache' = cache]_vars

\* The prices the published dictionary records for a symbol, over the three
\* categories.
Recorded(n) ==
    {cache[c][n] : c \in {k \in {"forex", "commodities", "crypto"} :
                              n \in DOMAIN cache[k]}}

\* C15: get_consensus_price returns the price the published dictionary
\* records for the symbol, 0.0 included, and None exactly when no category
\* holds the symbol; a call made more than cache_ttl after the last refresh
\* answers from a new dictionary.
C15_ConsensusIsRecordedPrice ==
    \A t \in OThreads :
        (ot[t].pc = "done" /\ ot[t].op = "consensus")
            => /\ ot[t].result.found <=> Recorded(ot[t].oracle_name) # {}
               /\ ot[t].result.found
                     => ot[t].result.price \in Recorded(ot[t].oracle_name)
               /\ (ot[t].callUpd # NoTime
                   /\ ot[t].callTime - ot[t].callUpd > cache_ttl)
                     => ot[t].ret.id # ot[t].callId
               /\ ot[t].ret.id = cache.id

\* C15 witness: a call made on a stale cache has returned the price 0.0 that
\* the refreshed dictionary records for BTC.
C15_Witness ==
    \E t \in OThreads :
        /\ ot[t].pc = "done" /\ ot[t].op = "consensus"
        /\ ot[t].oracle_name = "BTC"
        /\ ot[t].result = Price(0)
        /\ ot[t].callUpd # NoTime
        /\ ot[t].callTime - ot[t].callUpd > cache_ttl

\* C18 (as claimed): get_price_history returns 60, 288, 168 and 720 points
\* for "1h", "24h", "7d" and "30d", with timestamps that never decrease from
\* one point to the next.
C18_HistoryLengthAndOrder ==
    \A t \in OThreads :
        (ot[t].pc = "done" /\ ot[t].op = "history")
            => /\ ot[t].timeframe = "1h" => Len(ot[t].history) = 60
               /\ ot[t].timeframe = "24h" => Len(ot[t].history) = 288
               /\ ot[t].timeframe = "7d" => Len(ot[t].history) = 168
               /\ ot[t].timeframe = "30d" => Len(ot[t].history) = 720
               /\ \A i \in 1..(Len(ot[t].history) - 1) :
                     ot[t].history[i].timestamp
                         <= ot[t].history[i + 1].timestamp

\* A successful update_model is between its first write and its last.
Swapping(t) == th[t].pc \in {"u_path", "u_flag", "u_clear"}

C22_TakenAtNeverDecreases ==
    [][cache'.timestamp >= cache.timestamp]_vars

\* C23: with one caller, a predict call in which the session failed leaves
\* 50 as the entry of its market and returns 50; an entry of 50 stays 50 in
\* every step but the clear of a successful update_model; and a predict call
\* that finds an entry returns the entry, so the calls that follow return 50.
C23_FailureIsCachedUntilUpdate ==
    /\ [](\A t \in Threads :
            (PredictDone(t) /\ th[t].via = "onnx" /\ th[t].errored)
                => /\ th[t].ret = 50
                   /\ th[t].market \in DOMAIN prediction_cache
                   /\ prediction_cache[th[t].market] = 50)
    /\ [][\A m \in DOMAIN prediction_cache :
            prediction_cache[m] = 50
                => \/ m \in DOMAIN prediction_cache'
                        /\ prediction_cache'[m] = 50
                   \/ ClearStep]_vars
    /\ [](\A t \in Threads :
            (PredictDone(t) /\ ~th[t].missed)
                => /\ th[t].via = "cache"
                   /\ th[t].ret = prediction_cache[th[t].market])

\* C23 witness: while a model is loaded, a predict call with features has
\* returned the 50 that the call before it returned for the same market.
C23_Witness ==
    \E t \in Threads :
        /\ PredictDone(t) /\ th[t].via = "cache"
        /\ th[t].ret = 50 /\ th[t].prev = 50
        /\ Truthy(th[t].feats) /\ IsFinite(th[t].feats.vec)
        /\ model_loaded /\ session # 0

\* C24: with one caller, a predict call that found no entry for its market
\* is answered by the ONNX session exactly when a model is loaded and the
\* features given are a list that is not empty, and by the fallback
\* otherwise.
C24_BackendSelection ==
    \A t \in Threads :
        (PredictDone(t) /\ th[t].missed)
            => /\ th[t].via = "onnx"
                    <=> (model_loaded /\ th[t].feats # NoFeatures
                         /\ th[t].feats.vec # << >>)
               /\ th[t].via # "onnx" => th[t].via \in {"fallback", "error"}

\* C24 witness: a model is loaded and the fallback has answered a call that
\* was given the empty list.
C24_Witness ==
    \E t \in Threads :
        /\ PredictDone(t) /\ th[t].missed
        /\ model_loaded
        /\ th[t].feats = Vec(<< >>)
        /\ th[t].via = "fallback"

\* The integer nearest to x / d, for d > 0.
Nearest(x, d) ==
    IF x >= 0 THEN (2 * x + d) \div (2 * d)
    ELSE 0 - ((2 * (0 - x) + d) \div (2 * d))

\* C30 (as claimed): a confidence the ONNX session has produced is the
\* integer nearest to raw * 100, clamped to 0..100.
C30_ConfidenceIsRounded ==
    \A t \in Threads :
        (th[t].pc \in {"p_store", "done"} /\ th[t].via = "onnx"
         /\ ~th[t].errored)
            => th[t].conf = Max2(0, Min2(100, Nearest(th[t].raw, 10)))

InfoDone(t) == th[t].pc = "done" /\ th[t].op = "info"

\* C27: while model_loaded is set a session exists; no step resets
\* model_loaded; and get_model_info reports the flag as it was at some moment
\* of the call: 'ONNX' only when the flag is set, 'Fallback' only when the
\* flag was not set when the call began.
C27_LoadedFlag ==
    /\ [](model_loaded => session # 0)
    /\ [][model_loaded => model_loaded']_vars
    /\ [](\A t \in Threads :
            InfoDone(t)
                => /\ th[t].info.type \in {"ONNX", "Fallback"}
                   /\ th[t].info.type = "ONNX" => model_loaded
                   /\ th[t].info.type = "Fallback" => ~th[t].flagAtCall)

\* C27 witness: get_model_info has reported 'ONNX' in a call that began
\* before update_model set the flag, beside a predict call in flight.
C27_Witness ==
    \E t, u \in Threads :
        /\ InfoDone(t) /\ th[t].info.type = "ONNX" /\ ~th[t].flagAtCall
        /\ th[u].op = "predict"

\* C26 (as claimed): when the dictionary holds fewer than seven numbers, the
\* slots 7 to 20 of the list prepare_features returns are all 0.0.
C26_FewValuesNoIndicators ==
    (built.called /\ Len(NumericItems(built.arg)) < 7)
        => \A i \in 8..21 : built.features[i] = 0

StaticDefault ==
    [sym \in {"USD_EUR", "JPY_GBP", "GOLD", "OIL", "BTC", "ETH", "SOL"} |->
        CASE sym = "USD_EUR" -> 9200
          [] sym = "JPY_GBP" -> 56
          [] sym = "GOLD" -> 20453000
          [] sym = "OIL" -> 735000
          [] sym = "BTC" -> 432500000
          [] sym = "ETH" -> 22805000
          [] sym = "SOL" -> 987500]

\* C25: at every point of a fetch_all_prices call, each symbol assigned so
\* far holds the value of its own fetch: the static price of the symbol when
\* its request failed or none was made, the upstream's price when it
\* answered, 0.0 when it answered without the key; every call assigns all
\* seven symbols, publishes the dictionary and returns it.
C25_FailureStaysWithItsAsset ==
    \A t \in OThreads :
        /\ InFetch(t) \/ (ot[t].pc = "done" /\ ot[t].op = "refresh")
              => \A i \in 1..Len(ot[t].outs) :
                    LET sym == Assets[i]
                        v == ot[t].prices[Category(sym)][sym]
                    IN /\ sym \in DOMAIN ot[t].prices[Category(sym)]
                       /\ ot[t].outs[i] \in {"raise", "static"}
                             => v = StaticDefault[sym]
                       /\ ot[t].outs[i] = "live" => v = Quote(sym)
                       /\ ot[t].outs[i] = "missing" => v = 0
        /\ (ot[t].pc \in {"f_publish", "f_stamp", "done"}
            /\ ot[t].prices.id # 0)
              => Len(ot[t].outs) = Len(Assets) /\ Complete(ot[t].prices)
        /\ (ot[t].pc \in {"f_stamp", "done"} /\ ot[t].prices.id # 0)
              => cache = ot[t].prices
        /\ (ot[t].pc = "done" /\ ot[t].op = "refresh")
              => ot[t].ret = ot[t].prices

\* C25 witness: a refresh in which the request for JPY_GBP and the request
\* for ETH failed and every other request was answered has returned.
C25_Witness ==
    \E t \in OThreads :
        /\ ot[t].pc = "done" /\ ot[t].op = "refresh"
        /\ ot[t].outs
              = <<"live", "raise", "static", "static", "live", "raise", "live">>
        /\ cache = ot[t].ret

====
